---------------------------- MODULE Spec2Model ----------------------------
(***************************************************************************)
(* A model of src/src/Scrabble.py: the board, the dictionary, the anchor   *)
(* locator, the scorer and the move selector.                              *)
(*                                                                         *)
(* Conventions.  A Python string is a sequence of one-character strings.   *)
(* A board square is a record [k, v, any]:                                 *)
(*   k = "border" ('|'), "empty" ('.'), "start" ('*'), "letter" (a letter  *)
(*   of LETTERS, v = {letter}) or "anchor" (an Anchor object, v = the set  *)
(*   of allowed letters, any = TRUE iff the object is the module global    *)
(*   ANY, which calculate_score tells apart with `is`).                    *)
(* map() returns a list: bonus_template (line 25) slices the result of     *)
(* map, so the module only loads under that semantics.                     *)
(* A call that raises is an outcome of the operation: every operator that  *)
(* models a function which can raise returns a record with a field         *)
(* exc ("" when the call returns, else the exception's type).              *)
(***************************************************************************)
EXTENDS Integers, Sequences, FiniteSets, TLC

----------------------------------------------------------------------------
(* Sequence helpers (Python slicing and string operations)                 *)

\* list(...): the sequence with every element evaluated
list(s) == SubSeq(s, 1, Len(s))

RECURSIVE Reverse(_)
Reverse(s) == IF s = <<>> THEN <<>> ELSE Reverse(Tail(s)) \o <<Head(s)>>

\* sequence + sequence[-2::-1]
mirror(sequence) ==
    sequence \o Reverse(SubSeq(sequence, 1, Len(sequence) - 1))

\* str.replace(L, '', 1): the first occurrence of L removed
RECURSIVE RemoveFirst(_, _)
RemoveFirst(s, L) ==
    IF s = <<>> THEN <<>>
    ELSE IF Head(s) = L THEN Tail(s)
    ELSE <<Head(s)>> \o RemoveFirst(Tail(s), L)

RECURSIVE removed(_, _)
removed(letters, remove) ==
    IF remove = <<>> THEN letters
    ELSE removed(RemoveFirst(letters, Head(remove)), Tail(remove))

\* Python's order on strings, by code point; only the characters below occur
Ord(c) ==
    CASE c = "A" -> 65 [] c = "B" -> 66 [] c = "C" -> 67 [] c = "_" -> 95
      [] c = "a" -> 97 [] c = "b" -> 98 [] c = "c" -> 99 [] OTHER -> 0

RECURSIVE StrLess(_, _)
StrLess(s, t) ==
    IF t = <<>> THEN FALSE
    ELSE IF s = <<>> THEN TRUE
    ELSE IF Head(s) # Head(t) THEN Ord(Head(s)) < Ord(Head(t))
    ELSE StrLess(Tail(s), Tail(t))

----------------------------------------------------------------------------
(* Module constants, lines 10-58                                           *)

\* The letters of the alphabet that occur in the word list and the hands of
\* this model; the source's list holds all 26.
LETTERS == {"A", "B", "C"}

POINTS == ("A" :> 1) @@ ("B" :> 3) @@ ("C" :> 3) @@ ("_" :> 0)

ACROSS == <<1, 0>>
DOWN == <<0, 1>>

WWFQuadrant ==
    << <<"|","|","|","|","|","|","|","|","|">>,
       <<"|",".",".",".","3",".",".",";",".">>,
       <<"|",".",".",":",".",".","2",".",".">>,
       <<"|",".",":",".",".",":",".",".",".">>,
       <<"|","3",".",".",";",".",".",".","2">>,
       <<"|",".",".",":",".",".",".",":",".">>,
       <<"|",".","2",".",".",".","3",".",".">>,
       <<"|",";",".",".",".",":",".",".",".">>,
       <<"|",".",".",".",":",".",".",".","*">> >>

bonus_template(quadrant) ==
    mirror(list([r \in 1..Len(quadrant) |-> mirror(quadrant[r])]))

WWF == bonus_template(WWFQuadrant)

\* BONUS[j][i] with the source's 0-based indices
BONUS(j, i) == WWF[j + 1][i + 1]

DW == "2"
TW == "3"
DL == ":"
TL == ";"

----------------------------------------------------------------------------
(* The dictionary, lines 76-94                                             *)

\* The text of the word list file (words4k.txt is not part of the sources):
\* "ab\nba\ncab\nbac\n"
WordFileText ==
    <<"a","b","\n","b","a","\n","c","a","b","\n","b","a","c","\n">>

\* str.upper()
UpperChar(c) ==
    CASE c = "a" -> "A" [] c = "b" -> "B" [] c = "c" -> "C" [] OTHER -> c

upper(text) == [n \in 1..Len(text) |-> UpperChar(text[n])]

IsSpace(c) == c \in {" ", "\n", "\t"}

\* str.split(): the maximal runs of non-whitespace characters, in order
RECURSIVE SplitFrom(_, _, _)
SplitFrom(text, n, cur) ==
    IF n > Len(text) THEN (IF cur = <<>> THEN <<>> ELSE <<cur>>)
    ELSE IF IsSpace(text[n])
         THEN (IF cur = <<>> THEN <<>> ELSE <<cur>>) \o SplitFrom(text, n + 1, <<>>)
         ELSE SplitFrom(text, n + 1, Append(cur, text[n]))

split(text) == SplitFrom(text, 1, <<>>)

\* a variant of prefixes that includes the complete word
PrefixesWithWord(word) == {SubSeq(word, 1, n) : n \in 0..Len(word)}

\* [word[:i] for i in range(len(word))]
prefixes(word) == {SubSeq(word, 1, n) : n \in 0..(Len(word) - 1)}

\* (wordset, prefixset)
readwordlist(text) ==
    LET words == split(upper(text))
    IN  << {words[n] : n \in 1..Len(words)},
           UNION {prefixes(words[n]) : n \in 1..Len(words)} >>

WORDS == readwordlist(WordFileText)[1]
PREFIXES == readwordlist(WordFileText)[2]

----------------------------------------------------------------------------
(* Squares and boards                                                      *)

BorderSq == [k |-> "border", v |-> {}, any |-> FALSE]
EmptySq == [k |-> "empty", v |-> {}, any |-> FALSE]
StartSq == [k |-> "start", v |-> {}, any |-> FALSE]
LetterSq(c) == [k |-> "letter", v |-> {c}, any |-> FALSE]
\* Anchor(...): a new Anchor object
Anchor(S) == [k |-> "anchor", v |-> S, any |-> FALSE]
\* ANY = Anchor(LETTERS), the one module-level object (line 11)
ANY == [k |-> "anchor", v |-> LETTERS, any |-> TRUE]

LetterOf(sq) == CHOOSE c \in sq.v : TRUE

\* board[j][i], 0-based as in the source
Sq(board, j, i) == board[j + 1][i + 1]
NRows(board) == Len(board)
NCols(board) == Len(board[1])

is_letter(sq) == sq.k = "letter"

is_empty(sq) == sq.k = "empty" \/ sq.k = "start" \/ sq.k = "anchor"

\* isinstance(sq, set); Anchor is the only set subclass put on a board
IsSet(sq) == sq.k = "anchor"

\* a variant of transpose that takes the rows from the last to the first
TransposeFlipped(matrix) ==
    list([c \in 1..Len(matrix[1]) |->
             list([r \in 1..Len(matrix) |-> matrix[Len(matrix) + 1 - r][c]])])

\* map(list, zip(*matrix))
transpose(matrix) ==
    list([c \in 1..Len(matrix[1]) |->
             list([r \in 1..Len(matrix) |-> matrix[r][c]])])

\* [N, S, E, W]
neighbors(board, i, j) ==
    << Sq(board, j - 1, i), Sq(board, j + 1, i),
       Sq(board, j, i + 1), Sq(board, j, i - 1) >>

\* first loop of find_cross_word: the letters directly above row j, and the
\* value j2 holds when the loop breaks
RECURSIVE CrossUp(_, _, _, _)
CrossUp(board, i, j2, w) ==
    IF j2 >= 1 /\ is_letter(Sq(board, j2 - 1, i))
    THEN IF j2 - 1 >= 1
         THEN CrossUp(board, i, j2 - 1, <<LetterOf(Sq(board, j2 - 1, i))>> \o w)
         ELSE <<j2, <<LetterOf(Sq(board, j2 - 1, i))>> \o w>>
    ELSE <<j2, w>>

\* second loop: the letters directly below
RECURSIVE CrossDown(_, _, _, _)
CrossDown(board, i, j3, w) ==
    IF j3 < NRows(board) /\ is_letter(Sq(board, j3, i))
    THEN CrossDown(board, i, j3 + 1, Append(w, LetterOf(Sq(board, j3, i))))
    ELSE w

\* (j2, w); the square itself is "." in w unless it holds a letter
find_cross_word(board, i, j) ==
    LET sq == Sq(board, j, i)
        w0 == IF is_letter(sq) THEN <<LetterOf(sq)>> ELSE <<".">>
        up == CrossUp(board, i, j, w0)
    IN  <<up[1], CrossDown(board, i, j + 1, up[2])>>

\* str.replace('.', L)
ReplaceDot(w, L) == [n \in 1..Len(w) |-> IF w[n] = "." THEN L ELSE w[n]]

----------------------------------------------------------------------------
(* Scoring, lines 163-187                                                  *)

RECURSIVE calculate_score(_, _, _, _, _)

\* calculate_score(board, (i, j2), DOWN, L, word.replace('.', L)) for the
\* (j2, word) that find_cross_word returned
CrossWordScoreOf(board, L, i, cw) ==
    calculate_score(board, <<i, cw[1]>>, DOWN, <<L>>, ReplaceDot(cw[2], L))

cross_word_score(board, L, pos, direction) ==
    CrossWordScoreOf(board, L, pos[1], find_cross_word(board, pos[1], pos[2]))

\* a variant of WordMult that applies the printed bonus on an occupied
\* square too
WordMultPrinted(sq, b) ==
    IF b = TW THEN 3
    ELSE IF b \in {DW, "*"} THEN 2 ELSE 1

\* word_multiplier's factor for the square sq with bonus b
WordMult(sq, b) ==
    IF is_letter(sq) THEN 1
    ELSE IF b = TW THEN 3
    ELSE IF b \in {DW, "*"} THEN 2 ELSE 1

\* letter_mult for the square sq with bonus b
LetterMult(sq, b) ==
    IF is_letter(sq) THEN 1
    ELSE IF b = TL THEN 3
    ELSE IF b = DL THEN 2 ELSE 1

RECURSIVE ScoreFrom(_, _, _, _, _, _, _, _)
\* the loop of calculate_score from n on (n counts from 0 as enumerate
\* does), with the values of total, cross_total and word_multiplier so far
ScoreFrom(board, pos, direction, word, n, total, cross_total, word_multiplier) ==
    IF n >= Len(word) THEN cross_total + word_multiplier * total
    ELSE ScoreFrom(board, pos, direction, word, n + 1,
           total + POINTS[word[n + 1]]
                   * LetterMult(Sq(board, pos[2] + n * direction[2],
                                          pos[1] + n * direction[1]),
                                BONUS(pos[2] + n * direction[2],
                                      pos[1] + n * direction[1])),
           cross_total
             + (IF /\ IsSet(Sq(board, pos[2] + n * direction[2],
                                      pos[1] + n * direction[1]))
                   /\ ~Sq(board, pos[2] + n * direction[2],
                                 pos[1] + n * direction[1]).any
                   /\ direction # DOWN
                THEN cross_word_score(board, word[n + 1],
                                      <<pos[1] + n * direction[1],
                                        pos[2] + n * direction[2]>>,
                                      IF direction = ACROSS THEN DOWN ELSE ACROSS)
                ELSE 0),
           word_multiplier
             * WordMult(Sq(board, pos[2] + n * direction[2],
                                  pos[1] + n * direction[1]),
                        BONUS(pos[2] + n * direction[2],
                              pos[1] + n * direction[1])))

\* the hand is a parameter the function never reads
calculate_score(board, pos, direction, hand, word) ==
    ScoreFrom(board, pos, direction, word, 0, 0, 0, 1)

----------------------------------------------------------------------------
(* Anchors, lines 204-220                                                  *)

\* a variant of CrossAnchor that allows every letter
CrossAnchorOfAll(w) == Anchor(LETTERS)

\* Anchor(L for L in LETTERS if w.replace('.', L) in WORDS)
CrossAnchor(w) == Anchor({L \in LETTERS : ReplaceDot(w, L) \in WORDS})

\* a variant of AnchorOf that drops the test for a neighbouring letter
AnchorOfAnyEmpty(board, i, j, sq, nb) ==
    IF sq.k = "start" \/ is_empty(sq)
    THEN IF is_letter(nb[1]) \/ is_letter(nb[2])
         THEN CrossAnchor(find_cross_word(board, i, j)[2])
         ELSE ANY
    ELSE sq

\* the value set_anchors leaves in row[i] for the square sq with the
\* neighbours nb = [N, S, E, W]
AnchorOf(board, i, j, sq, nb) ==
    IF sq.k = "start" \/ (is_empty(sq) /\ \E n \in 1..4 : is_letter(nb[n]))
    THEN IF is_letter(nb[1]) \/ is_letter(nb[2])
         THEN CrossAnchor(find_cross_word(board, i, j)[2])
         ELSE ANY
    ELSE sq

AnchorFor(board, i, j) ==
    AnchorOf(board, i, j, Sq(board, j, i), neighbors(board, i, j))

\* set_anchors(board[j], j, board): the board with row j's anchors written
set_anchors(board, j) ==
    [board EXCEPT ![j + 1] =
        list([c \in 1..Len(board[j + 1]) |->
                 IF c = 1 \/ c = Len(board[j + 1]) THEN board[j + 1][c]
                 ELSE AnchorFor(board, c - 1, j)])]

----------------------------------------------------------------------------
(* The prefix cache and the word finders, lines 339-385                    *)

\* HAND_PREFIXES_CACHE is a set of at most one entry [hand, isNone, results]:
\* the dict {hand: results}, where results is None (isNone) or a set
NoCache == {}

CacheHas(cache, hand) == \E e \in cache : e.hand = hand
CacheGet(cache, hand) == CHOOSE e \in cache : e.hand = hand

RECURSIVE FindPrefixesRec(_, _)
\* the strings find_prefixes adds to results from (hand, prefix) on
FindPrefixesRec(hand, prefix) ==
    IF prefix \in PREFIXES
    THEN {prefix} \cup UNION { FindPrefixesRec(RemoveFirst(hand, hand[n]),
                                             Append(prefix, hand[n])) :
                               n \in 1..Len(hand) }
    ELSE {}

\* what the call returns and stores once results is known
FindPrefixesDone(hand, isNone, results) ==
    [exc |-> "", isNone |-> isNone, value |-> results,
     cache |-> {[hand |-> hand, isNone |-> isNone, results |-> results]}]

FindPrefixesHit(entry, cache) ==
    [exc |-> "", isNone |-> entry.isNone, value |-> entry.results,
     cache |-> cache]

\* find_prefixes(hand, '', results), results None (resultsIsNone) or set():
\* [exc, isNone, value, cache]
find_prefixes(hand, resultsIsNone, cache) ==
    IF CacheHas(cache, hand)
    THEN FindPrefixesHit(CacheGet(cache, hand), cache)
    ELSE IF <<>> \in PREFIXES /\ resultsIsNone
    THEN \* results.add(prefix) with results = None
         [exc |-> "AttributeError", isNone |-> TRUE, value |-> {}, cache |-> cache]
    ELSE IF resultsIsNone THEN FindPrefixesDone(hand, TRUE, {})
    ELSE FindPrefixesDone(hand, FALSE, FindPrefixesRec(hand, <<>>))

RECURSIVE add_suffixes(_, _)
\* The function the global name add_suffixes is bound to once the module is
\* loaded: the definition of line 377, which replaces that of line 302.
\* The words it adds to results from (hand, prefix) on.
add_suffixes(hand, prefix) ==
    (IF prefix \in WORDS THEN {prefix} ELSE {})
    \cup (IF prefix \notin PREFIXES THEN {}
          ELSE UNION { add_suffixes(RemoveFirst(hand, hand[n]),
                                    Append(prefix, hand[n])) :
                       n \in 1..Len(hand) })

\* the loops of word_plays over the value fp of find_prefixes
WordPlaysOf(hand, board_letters, fp) ==
    IF fp.isNone
    THEN \* for prefix in None
         [exc |-> "TypeError", value |-> {}, cache |-> fp.cache]
    ELSE [exc |-> "", cache |-> fp.cache,
          value |-> UNION { add_suffixes(removed(hand, prefix),
                                         Append(prefix, board_letters[n])) :
                            prefix \in fp.value, n \in 1..Len(board_letters) }]

\* word_plays(hand, board_letters): [exc, value, cache]
word_plays(hand, board_letters, cache) ==
    WordPlaysOf(hand, board_letters, find_prefixes(hand, FALSE, cache))

----------------------------------------------------------------------------
(* Row search, lines 253-290                                               *)

RECURSIVE LettersLeft(_, _)
\* first loop of legal_prefix: the least start with row[start..i-1] all letters
LettersLeft(row, start) ==
    IF is_letter(row[start]) THEN LettersLeft(row, start - 1) ELSE start

RECURSIVE EmptyLeft(_, _)
\* second loop: the least start with row[start..i-1] all empty and no set
EmptyLeft(row, start) ==
    IF is_empty(row[start]) /\ ~IsSet(row[start])
    THEN EmptyLeft(row, start - 1) ELSE start

LegalPrefixAt(i, row, start) ==
    IF start < i
    THEN << [n \in 1..(i - start) |-> LetterOf(row[start + n])], i - start >>
    ELSE << <<>>, i - EmptyLeft(row, start) >>

\* (prefix_on_board, maxsize); row[i] of the source is row[i + 1] here, so
\* row[start - 1] of the source is row[start]
legal_prefix(i, row) == LegalPrefixAt(i, row, LettersLeft(row, i))

\* The outcome of add_suffixes(hand, prefix, start, row, results,
\* anchored=False), the call of lines 266 and 272: the name is bound to the
\* three-parameter function of line 377, so the call raises.
AddSuffixesRowCall == "TypeError"

RowRaise(exc, cache) == [exc |-> exc, results |-> {}, cache |-> cache]

RECURSIVE RowPlaysFrom(_, _, _, _)

\* the else branch of row_plays at anchor i, fp the value of find_prefixes
RowPlaysPrefixes(hand, row, i, max_size, fp) ==
    IF fp.exc # "" THEN RowRaise(fp.exc, fp.cache)
    ELSE IF fp.isNone
    THEN \* for prefix in None
         RowRaise("TypeError", fp.cache)
    ELSE IF \E prefix \in fp.value : Len(prefix) <= max_size
    THEN RowRaise(AddSuffixesRowCall, fp.cache)
    ELSE RowPlaysFrom(hand, row, i + 1, fp.cache)

\* the body of row_plays at anchor i, lp the value of legal_prefix
RowPlaysAt(hand, row, i, cache, lp) ==
    IF lp[1] # <<>>
    THEN RowRaise(AddSuffixesRowCall, cache)
    ELSE RowPlaysPrefixes(hand, row, i, lp[2], find_prefixes(hand, TRUE, cache))

\* the loop of row_plays from column i on: [exc, results, cache]; no call
\* of add_suffixes returns, so results stays empty
RowPlaysFrom(hand, row, i, cache) ==
    IF i > Len(row) - 2
    THEN [exc |-> "", results |-> {}, cache |-> cache]
    ELSE IF ~IsSet(row[i + 1])
    THEN RowPlaysFrom(hand, row, i + 1, cache)
    ELSE RowPlaysAt(hand, row, i, cache, legal_prefix(i, row))

row_plays(hand, row, cache) == RowPlaysFrom(hand, row, 1, cache)

----------------------------------------------------------------------------
(* Move selection, lines 115-148 and 193-201                               *)

RECURSIVE HorizontalFrom(_, _, _, _, _)

\* the body of the loop for row j, rp the value of row_plays
HorizontalScore(hand, board, j, results, rp) ==
    IF rp.exc # ""
    THEN [exc |-> rp.exc, results |-> {}, board |-> board, cache |-> rp.cache]
    ELSE HorizontalFrom(hand, board, j + 1, rp.cache,
           results \cup
           { << calculate_score(board, <<p[1], j>>, ACROSS, hand, p[2]),
                <<p[1], j>>, p[2] >> : p \in rp.results })

\* row j once set_anchors has written its anchors into board
HorizontalRow(hand, board, j, cache, results) ==
    HorizontalScore(hand, board, j, results, row_plays(hand, board[j + 1], cache))

\* the loop of horizontal_plays from row j on: [exc, results, board, cache]
HorizontalFrom(hand, board, j, cache, results) ==
    IF j > NRows(board) - 2
    THEN [exc |-> "", results |-> results, board |-> board, cache |-> cache]
    ELSE HorizontalRow(hand, set_anchors(board, j), j, cache, results)

horizontal_plays(hand, board, cache) == HorizontalFrom(hand, board, 1, cache, {})

\* the two loops that build results from hplays and vplays
AllPlaysResults(h, v) ==
    IF v.exc # ""
    THEN [exc |-> v.exc, results |-> {}, board |-> h.board, cache |-> v.cache]
    ELSE [exc |-> "", board |-> h.board, cache |-> v.cache,
          results |->
            { <<p[1], p[2], ACROSS, p[3]>> : p \in h.results }
            \cup { <<p[1], <<p[2][2], p[2][1]>>, DOWN, p[3]>> : p \in v.results }]

AllPlaysVertical(hand, h) ==
    IF h.exc # "" THEN h
    ELSE AllPlaysResults(h, horizontal_plays(hand, transpose(h.board), h.cache))

\* [exc, results, board, cache]: board is the caller's board as the call
\* leaves it; the transposed copy is dropped
all_plays(hand, board, cache) ==
    AllPlaysVertical(hand, horizontal_plays(hand, board, cache))

\* Python's order on tuples (score, (i, j), (di, dj), word)
PlayLess(p, q) ==
    IF p[1] # q[1] THEN p[1] < q[1]
    ELSE IF p[2][1] # q[2][1] THEN p[2][1] < q[2][1]
    ELSE IF p[2][2] # q[2][2] THEN p[2][2] < q[2][2]
    ELSE IF p[3][1] # q[3][1] THEN p[3][1] < q[3][1]
    ELSE IF p[3][2] # q[3][2] THEN p[3][2] < q[3][2]
    ELSE StrLess(p[4], q[4])

NOPLAY == <<>>

\* sorted(plays, reverse=True)[0]
FirstSorted(plays) ==
    CHOOSE p \in plays : \A q \in plays : q = p \/ PlayLess(q, p)

BestOf(a) ==
    [exc |-> a.exc, plays |-> a.results, board |-> a.board, cache |-> a.cache,
     play |-> IF a.exc # "" \/ a.results = {} THEN NOPLAY
              ELSE FirstSorted(a.results)]

\* [exc, play, plays, board, cache]: play is NOPLAY (None) or the greatest
\* play
best_play(hand, board, cache) == BestOf(all_plays(hand, board, cache))

RECURSIVE MakePlayFrom(_, _, _, _, _)
\* the loop of make_play from letter n on (n counts from 0)
MakePlayFrom(board, pos, direction, word, n) ==
    IF n >= Len(word) THEN board
    ELSE MakePlayFrom(
           [board EXCEPT ![pos[2] + n * direction[2] + 1]
                          [pos[1] + n * direction[1] + 1] = LetterSq(word[n + 1])],
           pos, direction, word, n + 1)

make_play(play, board) == MakePlayFrom(board, play[2], play[3], play[4], 0)

----------------------------------------------------------------------------
(* The state machine                                                       *)

VARIABLES
    board,      \* the caller's board, a list of rows of squares
    cache,      \* HAND_PREFIXES_CACHE
    ret,        \* the last call: its name, arguments and outcome
    nplays      \* the number of make_play calls so far

vars == <<board, cache, ret, nplays>>

\* the number of make_play calls a run makes
MaxPlays == 1

\* the hands the caller holds
Hands == { <<>>, <<"C","A","B">>, <<"A","B","C">>, <<"_","A","B">> }

\* the squares a caller's play starts on, (i, j): column, row
PlayPositions == { <<4, 2>> }

\* the words a caller puts down
PlayWords == { <<"A","B">>, <<"C","A","B">> }

\* the squares a scored placement starts on
ScorePositions ==
    { <<3, 2>>, <<4, 2>>, <<3, 1>>, <<4, 1>>, <<6, 1>>, <<7, 8>> }

\* the rows a caller sets the anchors of
AnchorRows == {1, 8}

\* a board of the shape of the bonus template, without letters; the centre
\* is the start square when star holds
BlankBoard(star) ==
    list([r \in 1..Len(WWF) |->
             list([c \in 1..Len(WWF[r]) |->
                      IF WWF[r][c] = "|" THEN BorderSq
                      ELSE IF WWF[r][c] = "*" /\ star THEN StartSq
                      ELSE EmptySq])])

\* the squares word covers from pos in direction, as (i, j) pairs
Covered(pos, direction, word) ==
    { <<pos[1] + (n - 1) * direction[1], pos[2] + (n - 1) * direction[2]>> :
      n \in 1..Len(word) }

\* every covered square lies inside the border
Fits(b, pos, direction, word) ==
    \A c \in Covered(pos, direction, word) :
        /\ c[1] >= 1 /\ c[1] <= NCols(b) - 2
        /\ c[2] >= 1 /\ c[2] <= NRows(b) - 2

NoRet ==
    [op |-> "none", hand |-> <<>>, exc |-> "", play |-> NOPLAY, plays |-> {},
     value |-> {}, isNone |-> FALSE, score |-> 0, pos |-> <<0, 0>>,
     dir |-> ACROSS, word |-> <<>>, text |-> <<>>, words |-> {},
     prefixset |-> {}, matrix |-> <<>>, transposed |-> <<>>]

Init ==
    /\ board \in {BlankBoard(TRUE), BlankBoard(FALSE)}
    /\ cache = NoCache
    /\ ret = NoRet
    /\ nplays = 0

\* best_play(hand, board)
BestPlay ==
    \E hand \in Hands :
      \E r \in {best_play(hand, board, cache)} :
            /\ board' = r.board
            /\ cache' = r.cache
            /\ ret' = [NoRet EXCEPT !.op = "best_play", !.hand = hand,
                                    !.exc = r.exc, !.play = r.play,
                                    !.plays = r.plays]
            /\ UNCHANGED nplays

\* make_play(play, board), the play supplied by the caller
MakePlay ==
    \E pos \in PlayPositions, direction \in {ACROSS, DOWN}, word \in PlayWords :
        /\ nplays < MaxPlays
        /\ Fits(board, pos, direction, word)
        /\ board' = make_play(<<0, pos, direction, word>>, board)
        /\ ret' = [NoRet EXCEPT !.op = "make_play", !.pos = pos,
                                !.dir = direction, !.word = word]
        /\ nplays' = nplays + 1
        /\ UNCHANGED cache

\* find_prefixes(hand) and find_prefixes(hand, '', set())
FindPrefixes ==
    \E hand \in Hands, resultsIsNone \in BOOLEAN :
      \E r \in {find_prefixes(hand, resultsIsNone, cache)} :
            /\ cache' = r.cache
            /\ ret' = [NoRet EXCEPT !.op = "find_prefixes", !.hand = hand,
                                    !.exc = r.exc, !.value = r.value,
                                    !.isNone = r.isNone]
            /\ UNCHANGED <<board, nplays>>

\* word_plays(hand, board_letters)
WordPlays ==
    \E hand \in Hands, board_letters \in { <<"A">>, <<"B","C">> } :
      \E r \in {word_plays(hand, board_letters, cache)} :
            /\ cache' = r.cache
            /\ ret' = [NoRet EXCEPT !.op = "word_plays", !.hand = hand,
                                    !.exc = r.exc, !.value = r.value,
                                    !.word = board_letters]
            /\ UNCHANGED <<board, nplays>>

Next == BestPlay \/ MakePlay \/ FindPrefixes \/ WordPlays

Spec == Init /\ [][Next]_vars

\* set_anchors(board[j], j, board)
SetAnchors ==
    \E j \in AnchorRows :
        /\ board' = set_anchors(board, j)
        /\ ret' = [NoRet EXCEPT !.op = "set_anchors", !.pos = <<0, j>>]
        /\ UNCHANGED <<cache, nplays>>

\* calculate_score(board, pos, direction, hand, word)
Score ==
    \E pos \in ScorePositions, direction \in {ACROSS, DOWN},
       hand \in { <<"C","A","B">>, <<"_","A","B">> }, word \in WORDS :
        /\ Fits(board, pos, direction, word)
        /\ ret' = [NoRet EXCEPT !.op = "calculate_score", !.hand = hand,
                                !.pos = pos, !.dir = direction, !.word = word,
                                !.score = calculate_score(board, pos, direction,
                                                          hand, word)]
        /\ UNCHANGED <<board, cache, nplays>>

NextScore == MakePlay \/ SetAnchors \/ Score

\* the scorer applied to the boards make_play and set_anchors produce
SpecScore == Init /\ [][NextScore]_vars

\* the longest word list file read
MaxText == 3

\* the characters of a word list file: letters of either case, a digit and
\* the line end
FileChars == {"a", "B", "1", "\n"}

Texts == UNION { [1..n -> FileChars] : n \in 0..MaxText }

\* readwordlist(filename), the file holding text
ReadWordList ==
    \E text \in Texts :
      \E r \in {readwordlist(text)} :
            /\ ret' = [NoRet EXCEPT !.op = "readwordlist", !.text = text,
                                    !.words = r[1], !.prefixset = r[2]]
            /\ UNCHANGED <<board, cache, nplays>>

\* the dictionary builder applied to the word list files
SpecWords == Init /\ [][ReadWordList]_vars

\* the (rows, columns) of the matrices a caller transposes
Shapes ==
    { <<1, 1>>, <<1, 4>>, <<2, 3>>, <<3, 2>>, <<3, 6>>, <<6, 3>>, <<3, 8>>,
      <<5, 5>>, <<4, 7>>, <<7, 4>>, <<6, 6>>, <<17, 17>> }

\* the first rows and columns of the board
Matrix(b, shape) ==
    list([r \in 1..shape[1] |-> list([c \in 1..shape[2] |-> b[r][c]])])

\* transpose(matrix)
Transpose ==
    \E shape \in Shapes :
      \E m \in {Matrix(board, shape)} :
            /\ ret' = [NoRet EXCEPT !.op = "transpose", !.matrix = m,
                                    !.transposed = transpose(m)]
            /\ UNCHANGED <<board, cache, nplays>>

NextTranspose == MakePlay \/ Transpose

\* transpose applied to parts of the boards make_play produces
SpecTranspose == Init /\ [][NextTranspose]_vars

----------------------------------------------------------------------------
(* Vocabulary of the claims                                                *)

\* the n-th square (n from 1) of a placement, as (i, j)
SquareAt(pos, direction, n) ==
    <<pos[1] + (n - 1) * direction[1], pos[2] + (n - 1) * direction[2]>>

At(b, c) == Sq(b, c[2], c[1])

\* a letter lies directly beside square c in the axis perpendicular to direction
PerpLetter(b, c, direction) ==
    IF direction = ACROSS
    THEN is_letter(Sq(b, c[2] - 1, c[1])) \/ is_letter(Sq(b, c[2] + 1, c[1]))
    ELSE is_letter(Sq(b, c[2], c[1] - 1)) \/ is_letter(Sq(b, c[2], c[1] + 1))

\* the contiguous perpendicular word through square c with L in place
PerpWord(b, c, direction, L) ==
    IF direction = ACROSS
    THEN ReplaceDot(find_cross_word(b, c[1], c[2])[2], L)
    ELSE ReplaceDot(find_cross_word(transpose(b), c[2], c[1])[2], L)

\* the play p = (score, pos, dir, word) is legal on board b
LegalPlay(p, b) ==
    /\ p[4] \in WORDS
    /\ \A n \in 1..Len(p[4]) :
          (~is_letter(At(b, SquareAt(p[2], p[3], n)))
           /\ PerpLetter(b, SquareAt(p[2], p[3], n), p[3]))
          => PerpWord(b, SquareAt(p[2], p[3], n), p[3], p[4][n]) \in WORDS

\* no newly filled square of the placement has a letter beside it in the
\* perpendicular axis
NoCrossWord(b, pos, direction, word) ==
    \A n \in 1..Len(word) :
        is_letter(At(b, SquareAt(pos, direction, n)))
        \/ ~PerpLetter(b, SquareAt(pos, direction, n), direction)

\* the multipliers as the specification states them
SpecLetterMult(b, c) ==
    IF is_letter(At(b, c)) THEN 1
    ELSE CASE BONUS(c[2], c[1]) = ":" -> 2
           [] BONUS(c[2], c[1]) = ";" -> 3
           [] OTHER -> 1

SpecWordMult(b, c) ==
    IF is_letter(At(b, c)) THEN 1
    ELSE CASE BONUS(c[2], c[1]) \in {"2", "*"} -> 2
           [] BONUS(c[2], c[1]) = "3" -> 3
           [] OTHER -> 1

RECURSIVE LetterSum(_, _, _, _, _, _)
\* the sum of the multiplied letter values from letter n on; the letters at
\* the indices in wild are wildcard tiles and count 0
LetterSum(b, pos, direction, word, wild, n) ==
    IF n > Len(word) THEN 0
    ELSE (IF n \in wild THEN 0
          ELSE POINTS[word[n]] * SpecLetterMult(b, SquareAt(pos, direction, n)))
         + LetterSum(b, pos, direction, word, wild, n + 1)

RECURSIVE WordProduct(_, _, _, _, _)
WordProduct(b, pos, direction, word, n) ==
    IF n > Len(word) THEN 1
    ELSE SpecWordMult(b, SquareAt(pos, direction, n))
         * WordProduct(b, pos, direction, word, n + 1)

SpecScoreOf(b, pos, direction, word, wild) ==
    LetterSum(b, pos, direction, word, wild, 1)
    * WordProduct(b, pos, direction, word, 1)

\* every playable square is plain: no letter, no start square, no anchor
PlainBoard(b) ==
    \A r \in 1..Len(b) : \A c \in 1..Len(b[r]) : b[r][c].k \in {"border", "empty"}

HasLetter(b) ==
    \E r \in 1..Len(b) : \E c \in 1..Len(b[r]) : is_letter(b[r][c])

\* the hands hold the same letters with the same multiplicities
SameLetters(h1, h2) ==
    /\ Len(h1) = Len(h2)
    /\ \A L \in LETTERS \cup {"_"} :
          Cardinality({n \in 1..Len(h1) : h1[n] = L})
          = Cardinality({n \in 1..Len(h2) : h2[n] = L})

----------------------------------------------------------------------------
(* The claims                                                              *)

C2_ReturnedPlayIsMaximal ==
    ret.op = "best_play"
    => /\ ret.exc = ""
       /\ (ret.play = NOPLAY) <=> (ret.plays = {})
       /\ ret.play # NOPLAY
            => /\ ret.play \in ret.plays
               /\ \A q \in ret.plays : q[1] <= ret.play[1]

\* C3: for a placement that forms no cross word, calculate_score is the sum
\* of the letter values times their letter multipliers, times the product
\* of the word multipliers, where an occupied square has both multipliers 1
\* whatever bonus is printed on it.
C3_ScoreWithoutCrossWords ==
    (ret.op = "calculate_score"
     /\ NoCrossWord(board, ret.pos, ret.dir, ret.word))
    => ret.score = SpecScoreOf(board, ret.pos, ret.dir, ret.word, {})

\* C3, its case: a scored placement without cross words that reuses a
\* letter lying on a square with a printed bonus
C3_Witness ==
    /\ ret.op = "calculate_score"
    /\ NoCrossWord(board, ret.pos, ret.dir, ret.word)
    /\ \E n \in 1..Len(ret.word) :
          /\ is_letter(At(board, SquareAt(ret.pos, ret.dir, n)))
          /\ BONUS(SquareAt(ret.pos, ret.dir, n)[2],
                   SquareAt(ret.pos, ret.dir, n)[1]) \in {DW, TW, DL, TL}
    /\ \E n \in 1..Len(ret.word) :
          ~is_letter(At(board, SquareAt(ret.pos, ret.dir, n)))

\* C4: on the blank board with the start square, best_play with the hand
\* CAB returns a play, and its candidates include CAB across the centre
\* with score 14.
C4_CabAcrossTheCentre ==
    (ret.op = "best_play" /\ ret.hand = <<"C","A","B">>
     /\ ~HasLetter(board) /\ At(board, <<8, 8>>).k \in {"start", "anchor"})
    => /\ ret.exc = ""
       /\ ret.play # NOPLAY
       /\ \E p \in ret.plays :
             /\ p[1] = 14
             /\ p[3] = ACROSS
             /\ p[4] = <<"C","A","B">>
             /\ <<8, 8>> \in Covered(p[2], p[3], p[4])

\* C5: a letter played with the wildcard tile counts 0 points for its
\* square.  With the hand _AB the letter C of a word can only come from the
\* wildcard when its square is empty.
C5_WildcardScoresZero ==
    (ret.op = "calculate_score" /\ ret.hand = <<"_","A","B">>
     /\ NoCrossWord(board, ret.pos, ret.dir, ret.word))
    => ret.score
       = SpecScoreOf(board, ret.pos, ret.dir, ret.word,
                     {n \in 1..Len(ret.word) :
                         /\ ret.word[n] = "C"
                         /\ ~is_letter(At(board,
                                          SquareAt(ret.pos, ret.dir, n)))})

\* the across plays all_plays finds, as (score, pos, word)
AcrossPlays(a) == { <<p[1], p[2], p[4]>> : p \in {q \in a.results : q[3] = ACROSS} }

\* the down plays all_plays finds, with the two coordinates swapped
DownPlaysSwapped(a) ==
    { <<p[1], <<p[2][2], p[2][1]>>, p[4]>> : p \in {q \in a.results : q[3] = DOWN} }

\* both searches return and find the same plays
SamePlaysTransposed(a, t) ==
    /\ a.exc = "" /\ t.exc = ""
    /\ AcrossPlays(a) = DownPlaysSwapped(t)

SameOutcome(r1, r2) ==
    /\ r1.exc = "" /\ r2.exc = ""
    /\ (r1.play = NOPLAY) <=> (r2.play = NOPLAY)
    /\ r1.play # NOPLAY => r1.play[1] = r2.play[1]

\* the second call runs on the board and the cache the first one left
CalledTwice(h1, h2, r1) == SameOutcome(r1, best_play(h2, r1.board, r1.cache))

ReturnsNone(r, b) == r.exc = "" /\ r.play = NOPLAY /\ r.board = b

\* C8: on a board without a letter and without a start square best_play
\* returns None for every hand.
C8_NoAnchorNoPlay ==
    /\ PlainBoard(board)
         => \A hand \in Hands : ReturnsNone(best_play(hand, board, cache), board)
    /\ (ret.op = "best_play" /\ PlainBoard(board))
         => ret.exc = "" /\ ret.play = NOPLAY

\* C8, its case: best_play has returned None on such a board
C8_Witness ==
    /\ ret.op = "best_play"
    /\ ret.hand # <<>>
    /\ PlainBoard(board)
    /\ ret.exc = ""
    /\ ret.play = NOPLAY

RECURSIVE Consumed(_, _, _)
\* the letters the play p takes from the hand on board b, from letter n on
Consumed(p, b, n) ==
    IF n > Len(p[4]) THEN <<>>
    ELSE (IF is_letter(At(b, SquareAt(p[2], p[3], n))) THEN <<>>
          ELSE <<p[4][n]>>) \o Consumed(p, b, n + 1)

\* the second search, on the board with the play r1 made and with the hand
\* without the letters it took, returns another play or None
NotPlayedAgain(r1, r2) ==
    /\ r2.exc = ""
    /\ r2.play # NOPLAY
         => <<r2.play[2], r2.play[3], r2.play[4]>>
            # <<r1.play[2], r1.play[3], r1.play[4]>>

SearchAfterPlay(hand, r1) ==
    /\ r1.exc = ""
    /\ r1.play # NOPLAY
         => NotPlayedAgain(r1,
               best_play(removed(hand, Consumed(r1.play, r1.board, 1)),
                         make_play(r1.play, r1.board), r1.cache))

Conflicts(b, pos, direction, word) ==
    \E n \in 1..Len(word) :
        /\ is_letter(At(b, SquareAt(pos, direction, n)))
        /\ At(b, SquareAt(pos, direction, n)) # LetterSq(word[n])

\* every letter of b is still in its place in b2
LettersKept(b, b2) ==
    \A r \in 1..Len(b) : \A c \in 1..Len(b[r]) :
        is_letter(b[r][c]) => b2[r][c] = b[r][c]

\* C11: a play that would put a letter on a square holding a different
\* letter is refused and overwrites nothing.  make_play has no failing
\* outcome, so the refusal is stated by what it protects: the letters on the
\* board.
C11_ConflictingPlayIsRefused ==
    \A pos \in PlayPositions, direction \in {ACROSS, DOWN}, word \in PlayWords :
        (Fits(board, pos, direction, word)
         /\ Conflicts(board, pos, direction, word))
        => LettersKept(board, make_play(<<0, pos, direction, word>>, board))

\* C12: a search does not modify the board: a best_play step leaves every
\* square as it was.
C12_SearchLeavesTheBoard ==
    [][ret'.op = "best_play" => board' = board]_vars

\* the search returns without touching a letter, and the play it returns
\* touches none when make_play applies it
LettersSurvive(b, r) ==
    /\ r.exc = ""
    /\ LettersKept(b, r.board)
    /\ r.play # NOPLAY => LettersKept(r.board, make_play(r.play, r.board))

ProperPrefixesOf(ws, ps) ==
    /\ \A w \in ws : \A k \in 0..(Len(w) - 1) : SubSeq(w, 1, k) \in ps
    /\ \A p \in ps : \E w \in ws : Len(p) < Len(w) /\ SubSeq(w, 1, Len(p)) = p

\* C14: the prefix set readwordlist builds is exactly the set of the proper
\* prefixes of the words it read, the empty string included; so is PREFIXES
\* for WORDS.
C14_PrefixesAreProperPrefixes ==
    /\ ProperPrefixesOf(WORDS, PREFIXES)
    /\ ret.op = "readwordlist" => ProperPrefixesOf(ret.words, ret.prefixset)

\* C14, its case: a word list with a word of two letters or more was read
C14_Witness ==
    /\ ret.op = "readwordlist"
    /\ \E w \in ret.words : Len(w) >= 2
    /\ <<>> \in ret.prefixset

\* every character of the token is a letter
Alphabetic(w) == \A n \in 1..Len(w) : w[n] \in LETTERS

\* the tokens of the text, in upper case, that consist of letters only
WellFormed(text) ==
    { w \in {split(upper(text))[n] : n \in 1..Len(split(upper(text)))} :
        Alphabetic(w) }

\* C15: a token with a non-alphabetic character is dropped: the word set is
\* the set of the well-formed tokens and the prefix set holds their proper
\* prefixes only.
C15_MalformedTokensAreDropped ==
    ret.op = "readwordlist"
    => /\ ret.words = WellFormed(ret.text)
       /\ ProperPrefixesOf(WellFormed(ret.text), ret.prefixset)

\* C16: transposing twice gives the matrix back, and the transposed matrix
\* holds at [i][j] what the matrix holds at [j][i].
C16_TransposeIsAnInvolution ==
    ret.op = "transpose"
    => /\ transpose(ret.transposed) = ret.matrix
       /\ Len(ret.transposed) = Len(ret.matrix[1])
       /\ \A i \in 1..Len(ret.transposed) :
             /\ Len(ret.transposed[i]) = Len(ret.matrix)
             /\ \A j \in 1..Len(ret.matrix) :
                   ret.transposed[i][j] = ret.matrix[j][i]

\* C16, its case: a matrix that is not square and holds letters was
\* transposed
C16_Witness ==
    /\ ret.op = "transpose"
    /\ Len(ret.matrix) # Len(ret.matrix[1])
    /\ HasLetter(ret.matrix)

\* C17: best_play terminates for every hand and board and returns a play
\* or None.
C17_SearchReturnsAnAnswer ==
    ret.op = "best_play"
    => /\ ret.exc = ""
       /\ ret.play = NOPLAY \/ ret.play \in ret.plays

\* The score all_plays gives the vertical candidate word at pos = (i, j):
\* horizontal_plays on the transposed board sets the anchors of row i and
\* scores the candidate across from (j, i).
VerticalScoreOf(hand, b, pos, word) ==
    calculate_score(set_anchors(transpose(b), pos[1]), <<pos[2], pos[1]>>,
                    ACROSS, hand, word)

\* the squares inside the border, as (i, j)
Playable(b) == (1..(NCols(b) - 2)) \X (1..(NRows(b) - 2))

\* C18: a vertical play is scored with the bonuses of the squares it
\* occupies: without cross words its score is the sum of the letter values
\* times the letter multipliers printed on its own squares, times the
\* product of the word multipliers printed there.
C18_VerticalPlayUsesItsOwnBonuses ==
    \A pos \in Playable(board) : \A word \in WORDS :
        (Fits(board, pos, DOWN, word) /\ NoCrossWord(board, pos, DOWN, word))
        => VerticalScoreOf(<<"C","A","B">>, board, pos, word)
           = SpecScoreOf(board, pos, DOWN, word, {})

\* the square the perpendicular word through square c starts on
PerpStart(b, c, direction) ==
    IF direction = ACROSS
    THEN <<c[1], find_cross_word(b, c[1], c[2])[1]>>
    ELSE <<find_cross_word(transpose(b), c[2], c[1])[1], c[2]>>

RECURSIVE CrossSum(_, _, _, _, _)
\* the scores of the cross words the newly placed letters complete, from
\* letter n on
CrossSum(b, pos, direction, word, n) ==
    IF n > Len(word) THEN 0
    ELSE (IF /\ ~is_letter(At(b, SquareAt(pos, direction, n)))
             /\ PerpLetter(b, SquareAt(pos, direction, n), direction)
          THEN SpecScoreOf(b, PerpStart(b, SquareAt(pos, direction, n), direction),
                           IF direction = ACROSS THEN DOWN ELSE ACROSS,
                           PerpWord(b, SquareAt(pos, direction, n), direction,
                                    word[n]),
                           {})
          ELSE 0)
         + CrossSum(b, pos, direction, word, n + 1)

\* the primary word's score plus the score of every cross word, each once
SpecTotalOf(b, pos, direction, word) ==
    SpecScoreOf(b, pos, direction, word, {})
    + CrossSum(b, pos, direction, word, 1)

\* all_plays returns, and every play carries that total
ScoresAreTotals(b, a) ==
    /\ a.exc = ""
    /\ \A p \in a.results : p[1] = SpecTotalOf(b, p[2], p[3], p[4])

RunTop(b, i, j) ==
    CHOOSE t \in 1..j :
        /\ \A k \in t..(j - 1) : is_letter(Sq(b, k, i))
        /\ ~is_letter(Sq(b, t - 1, i))

\* the last row of the run of letters that starts directly below (i, j)
RunBottom(b, i, j) ==
    CHOOSE u \in j..(NRows(b) - 2) :
        /\ \A k \in (j + 1)..u : is_letter(Sq(b, k, i))
        /\ ~is_letter(Sq(b, u + 1, i))

\* the vertical word through (i, j) with L on that square
VerticalWordWith(b, i, j, L) ==
    [n \in 1..(RunBottom(b, i, j) - RunTop(b, i, j) + 1) |->
        IF RunTop(b, i, j) + n - 1 = j THEN L
        ELSE LetterOf(Sq(b, RunTop(b, i, j) + n - 1, i))]

\* the square is the start square: it holds '*', or the anchor an earlier
\* set_anchors wrote over the '*' of the bonus grid
IsStartSquare(sq, j, i) ==
    sq.k = "start" \/ (sq.k = "anchor" /\ BONUS(j, i) = "*")

LetterBeside(b, i, j) ==
    \/ is_letter(Sq(b, j - 1, i)) \/ is_letter(Sq(b, j + 1, i))
    \/ is_letter(Sq(b, j, i + 1)) \/ is_letter(Sq(b, j, i - 1))

LetterAboveOrBelow(b, i, j) ==
    is_letter(Sq(b, j - 1, i)) \/ is_letter(Sq(b, j + 1, i))

\* square (i, j) of b2 is what set_anchors has to make of that square of b
SquareAnchoredRight(b, i, j, b2) ==
    /\ is_letter(Sq(b, j, i)) => Sq(b2, j, i) = Sq(b, j, i)
    /\ ~is_letter(Sq(b, j, i))
         => (Sq(b2, j, i).k = "anchor"
             <=> (IsStartSquare(Sq(b, j, i), j, i) \/ LetterBeside(b, i, j)))
    /\ (Sq(b2, j, i).k = "anchor" /\ LetterAboveOrBelow(b, i, j))
         => Sq(b2, j, i).v
            = {L \in LETTERS : VerticalWordWith(b, i, j, L) \in WORDS}
    /\ (Sq(b2, j, i).k = "anchor" /\ ~LetterAboveOrBelow(b, i, j))
         => Sq(b2, j, i).v = LETTERS
    /\ Sq(b2, j, i).k # "anchor" => Sq(b2, j, i) = Sq(b, j, i)

\* b2 is b with the anchors of row j set, nothing else changed
AnchorsSetRight(b, j, b2) ==
    /\ \A r \in 1..Len(b) : r # j + 1 => b2[r] = b[r]
    /\ Sq(b2, j, 0) = Sq(b, j, 0)
    /\ Sq(b2, j, NCols(b) - 1) = Sq(b, j, NCols(b) - 1)
    /\ \A i \in 1..(NCols(b) - 2) : SquareAnchoredRight(b, i, j, b2)

\* C20: after set_anchors on row j a square of the row is an anchor iff it
\* is the start square or it is empty with a letter beside it; an anchor
\* with a letter above or below allows exactly the letters that complete a
\* dictionary word there, every other anchor allows all letters; letters,
\* borders and the other rows are unchanged.  This holds for every row the
\* function can be called on, and the row it was last called on shows it.
\* (A calculate_score step leaves the board as it was, so every board is
\* looked at in the state before it.)
C20_AnchorsOfTheRow ==
    /\ ret.op # "calculate_score"
         => \A j \in 1..(NRows(board) - 2) :
               AnchorsSetRight(board, j, set_anchors(board, j))
    /\ ret.op = "set_anchors" => AnchorsSetRight(board, ret.pos[2], board)

\* C20, its case: set_anchors has left an anchor that allows some letters
\* but not all in the row it was called on
C20_Witness ==
    /\ ret.op = "set_anchors"
    /\ \E i \in 1..(NCols(board) - 2) :
          /\ Sq(board, ret.pos[2], i).k = "anchor"
          /\ Sq(board, ret.pos[2], i).v # {}
          /\ Sq(board, ret.pos[2], i).v # LETTERS


\* the play p puts a letter of the hand on an anchor square of board b: a
\* square without a letter that is the start square or has a letter
\* directly beside it
CoversAnchor(p, b) ==
    \E n \in 1..Len(p[4]) :
        /\ ~is_letter(At(b, SquareAt(p[2], p[3], n)))
        /\ \/ IsStartSquare(At(b, SquareAt(p[2], p[3], n)),
                            SquareAt(p[2], p[3], n)[2], SquareAt(p[2], p[3], n)[1])
           \/ LetterBeside(b, SquareAt(p[2], p[3], n)[1], SquareAt(p[2], p[3], n)[2])

\* all_plays returned a, and every play of a is connected on board b
AllConnected(b, a) ==
    /\ a.exc = ""
    /\ \A p \in a.results : CoversAnchor(p, b)

Count(s, L) == Cardinality({n \in 1..Len(s) : s[n] = L})

\* the letters word puts on squares of row that hold no letter form a
\* sub-multiset of hand
NewLettersFrom(hand, row, start, word) ==
    \A L \in LETTERS :
        Cardinality({n \in 1..Len(word) :
                        word[n] = L /\ ~is_letter(row[start + n])})
        <= Count(hand, L)

\* (start, word) is a placement the specification admits in row for hand;
\* the letter n of word lies on row[start + n] here
ValidPlacement(hand, row, start, word) ==
    /\ word \in WORDS
    /\ start >= 1 /\ start + Len(word) - 1 <= Len(row) - 2
    /\ \A n \in 1..Len(word) :
          is_letter(row[start + n]) => LetterOf(row[start + n]) = word[n]
    /\ NewLettersFrom(hand, row, start, word)
    /\ \E n \in 1..Len(word) : IsSet(row[start + n])
    /\ \A n \in 1..Len(word) :
          IsSet(row[start + n]) => word[n] \in row[start + n].v
    /\ ~is_letter(row[start])
    /\ ~is_letter(row[start + Len(word) + 1])

\* row_plays returned rp for hand and row, and rp holds every placement the
\* specification admits
RowComplete(hand, row, rp) ==
    /\ rp.exc = ""
    /\ \A start \in 1..(Len(row) - 2), word \in WORDS :
          ValidPlacement(hand, row, start, word) => <<start, word>> \in rp.results

\* C22: the enumeration is complete: for every hand and every row with its
\* anchors set, row_plays returns a set that holds every placement of a
\* dictionary word that fits the row, agrees with its letters, takes the
\* other letters from the hand, covers an anchor within its allowed
\* letters, and has no letter directly before or after it.
C22_EnumerationIsComplete ==
    \A hand \in Hands, j \in 1..(NRows(board) - 2) :
        RowComplete(hand, set_anchors(board, j)[j + 1],
                    row_plays(hand, set_anchors(board, j)[j + 1], cache))


RECURSIVE Missing(_, _, _)
\* how many letters of w, over the letters of the set S, hand does not hold
Missing(hand, w, S) ==
    IF S = {} THEN 0
    ELSE (IF Count(w, CHOOSE L \in S : TRUE) > Count(hand, CHOOSE L \in S : TRUE)
          THEN Count(w, CHOOSE L \in S : TRUE) - Count(hand, CHOOSE L \in S : TRUE)
          ELSE 0)
         + Missing(hand, w, S \ {CHOOSE L \in S : TRUE})

\* w can be spelled from hand with each wildcard standing for one letter
WildSpellable(hand, w) == Missing(hand, w, LETTERS) <= Count(hand, "_")

\* w needs a letter that hand lacks
NeedsWildcard(hand, w) == Missing(hand, w, LETTERS) > 0

\* find_prefixes returned fp for hand, with the prefixes a wildcard completes
WildPrefixes(hand, fp) ==
    /\ fp.exc = ""
    /\ \A p \in PREFIXES : WildSpellable(hand, p) => p \in fp.value

\* all_plays returned a for hand, with a word that needs the wildcard among
\* the candidates
WildCandidate(hand, a) ==
    /\ a.exc = ""
    /\ \E p \in a.results : NeedsWildcard(hand, p[4])

\* a square of b is the start square
HasStart(b) ==
    \E r \in 1..Len(b) : \E c \in 1..Len(b[r]) : b[r][c].k = "start"

\* C23: with a wildcard in the hand the enumeration tries it as every
\* letter: the prefixes found for the hand include those the wildcard
\* completes, and on a board with the start square free a word that needs
\* one letter the hand lacks is among the candidate plays.
C23_WildcardIsTriedAsEveryLetter ==
    \A hand \in Hands :
        Count(hand, "_") > 0
        => /\ WildPrefixes(hand, find_prefixes(hand, FALSE, NoCache))
           /\ HasStart(board) => WildCandidate(hand, all_plays(hand, board, cache))


\* (start, word) is a complete run of row: a dictionary word with no letter
\* directly before its first or after its last letter
CompleteRun(row, start, word) ==
    /\ word \in WORDS
    /\ ~is_letter(row[start])
    /\ ~is_letter(row[start + Len(word) + 1])

\* row_plays returned rp for row, and every placement of rp is a complete run
RowRunsComplete(row, rp) ==
    /\ rp.exc = ""
    /\ \A p \in rp.results : CompleteRun(row, p[1], p[2])

RemovedLeavesTheRest(hand, prefix) ==
    \A L \in LETTERS \cup {"_"} :
        Count(removed(hand, prefix), L) = Count(hand, L) - Count(prefix, L)

\* row_plays returned rp for hand and row, and every placement of rp keeps
\* the board's letters and takes its other letters from hand
RowUsesTheHand(hand, row, rp) ==
    /\ rp.exc = ""
    /\ \A p \in rp.results :
          /\ \A n \in 1..Len(p[2]) :
                is_letter(row[p[1] + n]) => LetterOf(row[p[1] + n]) = p[2][n]
          /\ NewLettersFrom(hand, row, p[1], p[2])

PrefixesTried(fp, max_size) ==
    IF fp.exc # "" \/ fp.isNone THEN {}
    ELSE {prefix \in fp.value : Len(prefix) <= max_size}

\* the first column of the run of letters that ends directly left of
\* column i of row (i itself when there is none)
RunStart(row, i) ==
    CHOOSE s \in 1..i :
        /\ \A k \in s..(i - 1) : is_letter(row[k + 1])
        /\ ~is_letter(row[s])

\* the number of squares directly left of column i that hold no letter,
\* up to the next occupied square or the border
RoomLeft(row, i) ==
    i - (CHOOSE s \in 1..i :
            /\ \A k \in s..(i - 1) : is_empty(row[k + 1])
            /\ ~is_empty(row[s]))

\* p can be spelled from a sub-multiset of hand
Spellable(hand, p) == \A L \in LETTERS : Count(p, L) <= Count(hand, L)

\* legal_prefix gives the run of letters left of the anchor i of row
RunIsThePrefix(row, i) ==
    /\ legal_prefix(i, row)[1]
         = [n \in 1..(i - RunStart(row, i)) |-> LetterOf(row[RunStart(row, i) + n])]
    /\ legal_prefix(i, row)[2] = i - RunStart(row, i)

\* find_prefixes returned fp, and the prefixes tried at the anchor i of
\* row are the dictionary prefixes spellable from hand that fit the room
PrefixesFillTheRoom(hand, row, i, fp) ==
    /\ fp.exc = ""
    /\ PrefixesTried(fp, legal_prefix(i, row)[2])
         = {p \in PREFIXES : Spellable(hand, p) /\ Len(p) <= RoomLeft(row, i)}

PrefixRight(hand, row, i, c) ==
    IF is_letter(row[i]) THEN RunIsThePrefix(row, i)
    ELSE PrefixesFillTheRoom(hand, row, i, find_prefixes(hand, TRUE, c))

\* C26: for every anchor of a row with its anchors set, legal_prefix
\* returns the maximal run of letters directly left of the anchor when
\* there is one; otherwise the prefixes row_plays tries there are all the
\* prefixes of PREFIXES spellable from the hand that are no longer than the
\* number of empty squares left of the anchor before the next occupied
\* square or the border.
C26_PrefixesOfAnAnchor ==
    \A hand \in Hands, j \in 1..(NRows(board) - 2), i \in 1..(NCols(board) - 2) :
        IsSet(set_anchors(board, j)[j + 1][i + 1])
        => PrefixRight(hand, set_anchors(board, j)[j + 1], i, cache)


RECURSIVE BoardsSearchedStale(_, _)
\* a variant of BoardsSearched that searches the rows as the caller left them
BoardsSearchedStale(b, j) ==
    IF j > NRows(b) - 2 THEN <<>>
    ELSE <<b>> \o BoardsSearchedStale(b, j + 1)

RECURSIVE BoardsSearched(_, _)
\* the loop of horizontal_plays from row j on: the board as row_plays finds
\* it for row j, then for row j + 1, ...  (a search that raises in a row
\* reaches the boards up to that row only)
BoardsSearched(b, j) ==
    IF j > NRows(b) - 2 THEN <<>>
    ELSE <<set_anchors(b, j)>> \o BoardsSearched(set_anchors(b, j), j + 1)

\* the board the vertical pass of all_plays starts from: the transposed
\* board, with the anchors the horizontal pass hs has left in it
VerticalStart(b, hs) == transpose(IF hs = <<>> THEN b ELSE hs[Len(hs)])

\* row n of the board seq[n] has the anchors that the letters of b call for
FreshIn(b, seq) ==
    \A n \in 1..Len(seq) : \A i \in 1..(NCols(b) - 2) :
        SquareAnchoredRight(b, i, n, seq[n])

\* both passes of a search on b find fresh anchors in every row they search
FreshInBoth(b, hs) ==
    /\ FreshIn(b, hs)
    /\ FreshIn(transpose(b), BoardsSearched(VerticalStart(b, hs), 1))

SearchSeesFreshAnchors(b) == FreshInBoth(b, BoardsSearched(b, 1))

\* C27: whatever searches and plays came before, when row_plays runs on a
\* row, across or down, a square of the row is an anchor iff the anchor
\* condition holds for the letters now on the board, and its allowed set
\* comes from the cross word now on the board, not from an earlier search
\* or from the other pass; this also holds for the search that follows one
\* more play.  (find_prefixes and word_plays leave the board as it was, so
\* every board is looked at in the state before them.)
C27_SearchSeesFreshAnchors ==
    /\ ret.op \notin {"find_prefixes", "word_plays"}
         => SearchSeesFreshAnchors(board)
    /\ ret.op = "best_play"
         => \A pos \in PlayPositions, direction \in {ACROSS, DOWN},
               word \in PlayWords :
                 SearchSeesFreshAnchors(make_play(<<0, pos, direction, word>>, board))

\* C27, its case: a search has run on a board with letters that still
\* carried the anchor an earlier search left on the start square, and has
\* left an anchor restricted by a cross word in the row it searched
C27_Witness ==
    /\ ret.op = "best_play"
    /\ HasLetter(board)
    /\ \E r \in 1..Len(board) : \E c \in 1..Len(board[r]) :
          board[r][c].k = "anchor" /\ BONUS(r - 1, c - 1) = "*"
    /\ \E r \in 1..Len(board) : \E c \in 1..Len(board[r]) :
          board[r][c].k = "anchor" /\ board[r][c].v # LETTERS


\* the body of the loop of horizontal_plays for row j alone: the scored
\* plays of the row, rp the value of row_plays on the row of b
ScoredOfRow(hand, b, j, rp) ==
    [exc |-> rp.exc,
     results |-> { << calculate_score(b, <<p[1], j>>, ACROSS, hand, p[2]),
                      <<p[1], j>>, p[2] >> : p \in rp.results }]

\* set_anchors, row_plays and the scoring for row j of b with the cache c
RowSearch(hand, b, j, c) ==
    ScoredOfRow(hand, set_anchors(b, j), j,
                row_plays(hand, set_anchors(b, j)[j + 1], c))

\* the two searches of a row return, with the same scored plays
SameRowPlays(r1, r2) ==
    /\ r1.exc = "" /\ r2.exc = ""
    /\ r1.results = r2.results

\* the caches a search of a row can meet: the present one, an empty one,
\* and one that holds the prefixes of the hand
CachesFor(hand) == {cache, NoCache, find_prefixes(hand, FALSE, NoCache).cache}

PrefixSetOf(hand) == {p \in PREFIXES : Spellable(hand, p)}

\* the cache holds one entry, for hand, with the prefix set of hand
CacheIsFor(c, hand) ==
    c = {[hand |-> hand, isNone |-> FALSE, results |-> PrefixSetOf(hand)]}

\* find_prefixes(hand) returned r: the prefix set of hand, and the cache
\* is left holding it
PrefixSetRight(hand, r) ==
    /\ r.exc = ""
    /\ ~r.isNone
    /\ r.value = PrefixSetOf(hand)
    /\ CacheIsFor(r.cache, hand)

\* C29: find_prefixes(hand), called with the hand alone as row_plays calls
\* it, returns the set of the prefixes in PREFIXES spellable from the hand,
\* whether the cache holds the hand or not; and after every top-level call
\* HAND_PREFIXES_CACHE holds exactly one entry, for the hand of that call,
\* with that hand's prefix set.
C29_PrefixesOfTheHand ==
    /\ \A hand \in Hands : PrefixSetRight(hand, find_prefixes(hand, TRUE, cache))
    /\ ret.op \in {"best_play", "find_prefixes", "word_plays"}
         => CacheIsFor(cache, ret.hand)


\* p is the greatest tuple of plays in Python's order
Greatest(p, plays) ==
    /\ p \in plays
    /\ \A q \in plays : q = p \/ PlayLess(q, p)

\* a further call r2 with the candidates of the call that returned play
SamePlayAgain(plays, play, r2) ==
    /\ r2.exc = ""
    /\ r2.plays = plays => r2.play = play

============================================================================
